---- MODULE Spec2Model ----
(***************************************************************************)
(* Model of alot/crypto.py: key validation (validate_key,                  *)
(* check_uid_validity), key resolution (get_key, list_keys) and the        *)
(* pass-through operations on the OpenPGP engine (detached_signature_for,  *)
(* encrypt, verify_detached, decrypt_verify, RFC3156_micalg_from_algo).    *)
(*                                                                         *)
(* The engine (the gpg module) is the environment.  What it answers to a   *)
(* call is either drawn nondeterministically (Spec) or computed from a     *)
(* keyring that does not change (SpecConc).                                *)
(***************************************************************************)
EXTENDS Integers, Sequences, FiniteSets, TLC

VARIABLES
    keyring,    \* the engine's keyring, in the order the engine lists it
    pc,         \* pc[p]: where call p stands
    op,         \* op[p]: the operation call p runs
    args,       \* args[p]: the arguments of get_key in call p
    local_key,  \* local_key[p]: get_key's local `key`
    gen,        \* gen[c]: what the keylist generator of context c still yields
    valid_key,  \* valid_key[p]: get_key's local `valid_key`
    result,     \* result[p]: what call p hands to its caller
    lookup,     \* lookup[p]: what ctx.get_key answered in call p (history)
    listed,     \* listed[p]: what ctx.keylist was going to yield in call p (history)
    vin,        \* arguments of validate_key or check_uid_validity
    vout        \* what it returns

vars == <<keyring, pc, op, args, local_key, gen, valid_key, result, lookup, listed, vin, vout>>

callvars == <<keyring, pc, op, args, local_key, gen, valid_key, result, lookup, listed>>

---------------------------------------------------------------------------
(* Bounds *)

MaxUids == 2    \* user ids on a key given to check_uid_validity
MaxKeys == 3    \* keys a listing yields
MaxRing == 2    \* keys on the unchanging keyring of SpecConc

---------------------------------------------------------------------------
(* Values *)

\* Python's None, as a record so that it compares with keys and results.
None == [none |-> TRUE]

Emails == {"a@x", "b@x"}

Validities == 0 .. 5

UserIDs ==
    [uid : {"u"}, email : Emails, revoked : BOOLEAN, invalid : BOOLEAN,
     validity : Validities]

mkuid(email, validity) ==
    [uid |-> "u", email |-> email, revoked |-> FALSE, invalid |-> FALSE,
     validity |-> validity]

mkkey(fpr, revoked, expired, invalid, can_sign, can_encrypt, uids) ==
    [fpr |-> fpr, revoked |-> revoked, expired |-> expired, invalid |-> invalid,
     can_sign |-> can_sign, can_encrypt |-> can_encrypt, uids |-> uids]

\* Sequences over S of length lo..hi.
SeqsOf(S, lo, hi) == UNION {[1 .. n -> S] : n \in lo .. hi}

\* Keys with every combination of the five flags (input of validate_key).
FlagKeys ==
    [fpr : {"F0"}, revoked : BOOLEAN, expired : BOOLEAN, invalid : BOOLEAN,
     can_sign : BOOLEAN, can_encrypt : BOOLEAN, uids : {<<mkuid("a@x", 4)>>}]

\* Usable keys with every user-id sequence (input of check_uid_validity).
UidKeys ==
    [fpr : {"F0"}, revoked : {FALSE}, expired : {FALSE}, invalid : {FALSE},
     can_sign : {TRUE}, can_encrypt : {TRUE}, uids : SeqsOf(UserIDs, 1, MaxUids)]

\* The keys the engine holds in the runs of get_key: a usable key trusted for
\* a@x, a usable key not trusted for a@x (but for b@x), and one key for each
\* way validate_key fails.
K_ok      == mkkey("F1", FALSE, FALSE, FALSE, TRUE, TRUE, <<mkuid("a@x", 4)>>)
K_untr    == mkkey("F2", FALSE, FALSE, FALSE, TRUE, TRUE,
                   <<mkuid("a@x", 3), mkuid("b@x", 5)>>)
K_revoked == mkkey("F3", TRUE, FALSE, FALSE, TRUE, FALSE, <<mkuid("a@x", 4)>>)
K_expired == mkkey("F4", FALSE, TRUE, FALSE, TRUE, TRUE, <<mkuid("a@x", 3)>>)
K_invalid == mkkey("F5", FALSE, FALSE, TRUE, TRUE, TRUE, <<mkuid("a@x", 4)>>)
K_noenc   == mkkey("F6", FALSE, FALSE, FALSE, TRUE, FALSE, <<mkuid("a@x", 4)>>)
K_nosign  == mkkey("F7", FALSE, FALSE, FALSE, FALSE, TRUE, <<mkuid("a@x", 5)>>)

KeyPool == {K_ok, K_untr, K_revoked, K_expired, K_invalid, K_noenc, K_nosign}

RingPool == {K_ok, K_untr, K_expired}

KeyIds == Emails

GetKeyArgs ==
    [keyid : KeyIds, validate : BOOLEAN, encrypt : BOOLEAN, sign : BOOLEAN,
     signed_only : BOOLEAN]

Procs == {1, 2}

---------------------------------------------------------------------------
(* Outcomes of a call: a returned value or a raised exception *)

Returned(v) == [type |-> "return", code |-> "-", value |-> v]

\* alot.errors.GPGProblem(message, code=...); the message is not modelled.
GPGProblem(code) == [type |-> "GPGProblem", code |-> code, value |-> None]

\* gpg.errors.GPGMEError raised by the engine, with the code getcode() gives.
GPGMEError(code) == [type |-> "GPGMEError", code |-> code, value |-> None]

\* An exception of the engine that is no GPGMEError (the other subclasses of
\* gpg.errors.GpgError, such as BadSignatures or InvalidRecipients).
GpgError == [type |-> "GpgError", code |-> "-", value |-> None]

AttributeError == [type |-> "AttributeError", code |-> "-", value |-> None]

\* Codes of alot.errors.GPGCode that crypto.py raises.
ValidatorCodes ==
    {"KEY_REVOKED", "KEY_EXPIRED", "KEY_INVALID", "KEY_CANNOT_ENCRYPT",
     "KEY_CANNOT_SIGN"}

GPGCodes == ValidatorCodes \cup {"AMBIGUOUS_NAME", "NOT_FOUND"}

\* Codes of gpg.errors the engine raises.
EngineCodes ==
    {"GPG_ERR_AMBIGUOUS_NAME", "GPG_ERR_INV_VALUE", "GPG_ERR_EOF",
     "GPG_ERR_GENERAL", "GPG_ERR_BAD_SIGNATURE"}

---------------------------------------------------------------------------
(* Key Validator *)

validate_key_swapped(key, sign, encrypt) ==
    IF key.revoked THEN "KEY_REVOKED"
    ELSE IF key.expired THEN "KEY_EXPIRED"
    ELSE IF key.invalid THEN "KEY_INVALID"
    ELSE IF sign /\ ~key.can_sign THEN "KEY_CANNOT_SIGN"
    ELSE IF encrypt /\ ~key.can_encrypt THEN "KEY_CANNOT_ENCRYPT"
    ELSE "OK"

\* The code of the GPGProblem validate_key raises, or "OK" when it returns.
\* The message of the GPGProblem reads key.uids[0].uid: a key has at least
\* one user id, as every key of the model has.
validate_key(key, sign, encrypt) ==
    IF key.revoked THEN "KEY_REVOKED"
    ELSE IF key.expired THEN "KEY_EXPIRED"
    ELSE IF key.invalid THEN "KEY_INVALID"
    ELSE IF encrypt /\ ~key.can_encrypt THEN "KEY_CANNOT_ENCRYPT"
    ELSE IF sign /\ ~key.can_sign THEN "KEY_CANNOT_SIGN"
    ELSE "OK"

TrustThreshold == 4

uid_ok(key_uid, email) ==
    /\ email = key_uid.email
    /\ ~key_uid.revoked
    /\ ~key_uid.invalid
    /\ key_uid.validity >= TrustThreshold

\* The for loop of check_uid_validity from position i on.
RECURSIVE uid_loop(_, _, _)
uid_loop(uids, email, i) ==
    IF i > Len(uids) THEN FALSE
    ELSE IF uid_ok(uids[i], email) THEN TRUE
    ELSE uid_loop(uids, email, i + 1)

check_uid_validity_first(key, email) == uid_ok(key.uids[1], email)

check_uid_validity(key, email) == uid_loop(key.uids, email, 1)

---------------------------------------------------------------------------
(* Key Resolver: the pieces of get_key *)

\* Lines 55-58: the try block, given what ctx.get_key answered.
try_block_unvalidated(found, validate, encrypt, sign) == found

try_block(found, validate, encrypt, sign) ==
    IF found.type # "return" THEN found
    ELSE IF validate /\ validate_key(found.value, sign, encrypt) # "OK"
         THEN GPGProblem(validate_key(found.value, sign, encrypt))
         ELSE found

\* Lines 59-60, 95-99: what the except clause does with exception e of the
\* try block.  It catches GPGMEError alone; "disambiguate" stands for
\* entering lines 66-94, "reraise" for line 99.
handler(e) ==
    IF e.type # "GPGMEError" THEN "uncaught"
    ELSE IF e.code = "GPG_ERR_AMBIGUOUS_NAME" THEN "disambiguate"
    ELSE IF e.code = "GPG_ERR_INV_VALUE" \/ e.code = "GPG_ERR_EOF" THEN "not_found"
    ELSE "reraise"

\* Lines 69-83: one pass of the loop over candidate k; exc is the exception
\* that leaves the loop, or None.
loop_body_first_wins(vk, k, encrypt, sign) ==
    IF validate_key(k, sign, encrypt) # "OK" THEN [valid_key |-> vk, exc |-> None]
    ELSE IF vk # None THEN [valid_key |-> vk, exc |-> None]
    ELSE [valid_key |-> k, exc |-> None]

loop_body_no_skip(vk, k, encrypt, sign) ==
    IF vk # None
    THEN [valid_key |-> vk, exc |-> GPGProblem("AMBIGUOUS_NAME")]
    ELSE [valid_key |-> k, exc |-> None]

loop_body(vk, k, encrypt, sign) ==
    IF validate_key(k, sign, encrypt) # "OK" THEN [valid_key |-> vk, exc |-> None]
    ELSE IF vk # None
         THEN [valid_key |-> vk, exc |-> GPGProblem("AMBIGUOUS_NAME")]
         ELSE [valid_key |-> k, exc |-> None]

\* Lines 85-94: after the loop.
after_loop_unchecked(vk) == Returned(vk)

after_loop(vk) ==
    IF vk = None THEN GPGProblem("NOT_FOUND") ELSE Returned(vk)

\* Lines 100-103: the trusted user-id check on the key of the try block.
trust_check(k, keyid, signed_only) ==
    IF signed_only /\ ~check_uid_validity(k, keyid)
    THEN GPGProblem("NOT_FOUND")
    ELSE Returned(k)

\* Lines 66-94 on a listing that yields items and then raises err (or ends).
RECURSIVE disambiguate(_, _, _, _, _)
disambiguate(items, err, vk, encrypt, sign) ==
    IF items = <<>>
    THEN IF err # None THEN err ELSE after_loop(vk)
    ELSE LET s == loop_body(vk, Head(items), encrypt, sign)
         IN  IF s.exc # None THEN s.exc
             ELSE disambiguate(Tail(items), err, s.valid_key, encrypt, sign)

\* get_key as one function of its arguments and of the engine's two answers.
get_key(found, listing, keyid, validate, encrypt, sign, signed_only) ==
    LET t == try_block(found, validate, encrypt, sign)
    IN  IF t.type = "return" THEN trust_check(t.value, keyid, signed_only)
        ELSE IF t.type = "GPGProblem" THEN t
        ELSE IF handler(t) = "disambiguate"
             THEN disambiguate(listing.items, listing.err, None, encrypt, sign)
        ELSE IF handler(t) = "not_found" THEN GPGProblem("NOT_FOUND")
        ELSE t

---------------------------------------------------------------------------
(* The engine *)

\* What ctx.get_key(keyid) can answer: a key, a GPGMEError, or an exception
\* that is no GPGMEError.
LookupAnswers ==
    {Returned(k) : k \in KeyPool} \cup {GPGMEError(c) : c \in EngineCodes}
        \cup {GpgError}

\* What iterating ctx.keylist(hint) can do: yield items, then end (err is
\* None) or raise err.
ListErrs == {None, GPGMEError("GPG_ERR_GENERAL"), GpgError}

Listings == [items : SeqsOf(KeyPool, 0, MaxKeys), err : ListErrs]

NoGen == [items |-> <<>>, err |-> None]

\* What sign, encrypt, verify and decrypt can answer.
OpAnswers(v) ==
    {Returned(v), GpgError} \cup {GPGMEError(c) : c \in EngineCodes}

\* A keyring that does not change answers from its content: a key matches
\* an identifier that is its fingerprint or the email of one of its user ids.
matches(k, keyid) ==
    k.fpr = keyid \/ \E i \in DOMAIN k.uids : k.uids[i].email = keyid

RECURSIVE engine_keylist(_, _)
engine_keylist(ring, hint) ==
    IF ring = <<>> THEN <<>>
    ELSE IF matches(Head(ring), hint)
         THEN <<Head(ring)>> \o engine_keylist(Tail(ring), hint)
         ELSE engine_keylist(Tail(ring), hint)

engine_get_key(ring, keyid) ==
    LET m == engine_keylist(ring, keyid)
    IN  IF Len(m) = 0 THEN GPGMEError("GPG_ERR_EOF")
        ELSE IF Len(m) = 1 THEN Returned(m[1])
        ELSE GPGMEError("GPG_ERR_AMBIGUOUS_NAME")

\* Keyrings: no key twice.
Rings ==
    {r \in SeqsOf(RingPool, 0, MaxRing) :
        \A i, j \in DOMAIN r : i # j => r[i] # r[j]}

\* gpg.core.hash_algo_name: the name of a hash algorithm, None if unknown.
HashAlgos == {"MD5", "SHA1", "SHA256", "UNKNOWN"}

hash_algo_name(hash_algo) ==
    CASE hash_algo = "MD5" -> <<"M", "D", "5">>
      [] hash_algo = "SHA1" -> <<"S", "H", "A", "1">>
      [] hash_algo = "SHA256" -> <<"S", "H", "A", "2", "5", "6">>
      [] OTHER -> None

\* str.lower on the characters the names are made of.
lower_char(c) ==
    CASE c = "M" -> "m"
      [] c = "D" -> "d"
      [] c = "S" -> "s"
      [] c = "H" -> "h"
      [] c = "A" -> "a"
      [] OTHER -> c

lower(str) == [i \in DOMAIN str |-> lower_char(str[i])]

---------------------------------------------------------------------------
(* State *)

idle == [p \in Procs |-> None]

InitCalls ==
    /\ pc = [p \in Procs |-> "idle"]
    /\ op = [p \in Procs |-> "-"]
    /\ args = idle
    /\ local_key = idle
    /\ gen = [c \in Procs |-> NoGen]
    /\ valid_key = idle
    /\ result = idle
    /\ lookup = idle
    /\ listed = idle

Init ==
    /\ keyring = <<>>
    /\ InitCalls
    /\ vin = None
    /\ vout = None

\* ctx = gpg.Context() in list_keys: the context whose keylist call p iterates.
list_ctx_shared(p) == 1

list_ctx(p) == p

\* Call p ends with outcome r.
Finish(p, r) ==
    /\ pc' = [pc EXCEPT ![p] = "done"]
    /\ result' = [result EXCEPT ![p] = r]

---------------------------------------------------------------------------
(* get_key, step by step *)

GetKeyCall(p, choices) ==
    /\ pc[p] = "idle"
    /\ pc' = [pc EXCEPT ![p] = "lookup"]
    /\ op' = [op EXCEPT ![p] = "get_key"]
    /\ \E a \in choices : args' = [args EXCEPT ![p] = a]
    /\ UNCHANGED <<keyring, local_key, gen, valid_key, result, lookup, listed, vin, vout>>

\* Lines 54-60 and 95-99: the lookup, the validation of its key and the
\* dispatch of the except clause.  The engine answers one of `answers`.
GetKeyLookup(p, answers) ==
    /\ pc[p] = "lookup"
    /\ \E found \in answers :
        /\ lookup' = [lookup EXCEPT ![p] = found]
        /\ LET a == args[p]
               t == try_block(found, a.validate, a.encrypt, a.sign)
           IN  IF t.type = "return"
               THEN /\ local_key' = [local_key EXCEPT ![p] = t.value]
                    /\ pc' = [pc EXCEPT ![p] = "uid"]
                    /\ UNCHANGED result
               ELSE /\ UNCHANGED local_key
                    /\ IF t.type = "GPGProblem" THEN Finish(p, t)
                       ELSE IF handler(t) = "disambiguate"
                            THEN pc' = [pc EXCEPT ![p] = "list"] /\ UNCHANGED result
                       ELSE IF handler(t) = "not_found"
                            THEN Finish(p, GPGProblem("NOT_FOUND"))
                       ELSE Finish(p, t)
    /\ UNCHANGED <<keyring, op, args, gen, valid_key, listed, vin, vout>>

\* Lines 66-67: keys = list_keys(hint=keyid); valid_key = None.  list_keys
\* returns the generator and asks the engine nothing yet; what the generator
\* goes on to yield in the loop is one of `listings`.
GetKeyList(p, listings) ==
    /\ pc[p] = "list"
    /\ \E listing \in listings :
        /\ listed' = [listed EXCEPT ![p] = listing]
        /\ gen' = [gen EXCEPT ![list_ctx(p)] = listing]
    /\ valid_key' = [valid_key EXCEPT ![p] = None]
    /\ pc' = [pc EXCEPT ![p] = "loop"]
    /\ UNCHANGED <<keyring, op, args, local_key, result, lookup, vin, vout>>

\* Lines 68-83: the generator yields a key and the loop body runs on it.
GetKeyLoopNext(p) ==
    /\ pc[p] = "loop"
    /\ gen[list_ctx(p)].items # <<>>
    /\ LET g == gen[list_ctx(p)]
           s == loop_body(valid_key[p], Head(g.items), args[p].encrypt, args[p].sign)
       IN  IF s.exc # None
           THEN /\ Finish(p, s.exc)
                /\ gen' = [gen EXCEPT ![list_ctx(p)] = NoGen]
                /\ UNCHANGED valid_key
           ELSE /\ valid_key' = [valid_key EXCEPT ![p] = s.valid_key]
                /\ gen' = [gen EXCEPT ![list_ctx(p)] =
                              [items |-> Tail(g.items), err |-> g.err]]
                /\ UNCHANGED <<pc, result>>
    /\ UNCHANGED <<keyring, op, args, local_key, lookup, listed, vin, vout>>

\* Line 68: the generator raises; get_key is inside its except clause, so
\* the GPGMEError leaves get_key.
GetKeyLoopRaise(p) ==
    /\ pc[p] = "loop"
    /\ gen[list_ctx(p)].items = <<>>
    /\ gen[list_ctx(p)].err # None
    /\ Finish(p, gen[list_ctx(p)].err)
    /\ gen' = [gen EXCEPT ![list_ctx(p)] = NoGen]
    /\ UNCHANGED <<keyring, op, args, local_key, valid_key, lookup, listed, vin, vout>>

\* Lines 85-94: the generator is exhausted.
GetKeyLoopEnd(p) ==
    /\ pc[p] = "loop"
    /\ gen[list_ctx(p)].items = <<>>
    /\ gen[list_ctx(p)].err = None
    /\ Finish(p, after_loop(valid_key[p]))
    /\ UNCHANGED <<keyring, op, args, local_key, gen, valid_key, lookup, listed, vin, vout>>

\* Lines 100-103.
GetKeyCheckUid(p) ==
    /\ pc[p] = "uid"
    /\ Finish(p, trust_check(local_key[p], args[p].keyid, args[p].signed_only))
    /\ UNCHANGED <<keyring, op, args, local_key, gen, valid_key, lookup, listed, vin, vout>>

\* The caller has the outcome; nothing of the call remains.
Return(p) ==
    /\ pc[p] = "done"
    /\ pc' = [pc EXCEPT ![p] = "idle"]
    /\ op' = [op EXCEPT ![p] = "-"]
    /\ args' = [args EXCEPT ![p] = None]
    /\ local_key' = [local_key EXCEPT ![p] = None]
    /\ valid_key' = [valid_key EXCEPT ![p] = None]
    /\ result' = [result EXCEPT ![p] = None]
    /\ lookup' = [lookup EXCEPT ![p] = None]
    /\ listed' = [listed EXCEPT ![p] = None]
    /\ gen' = [gen EXCEPT ![list_ctx(p)] = NoGen]
    /\ UNCHANGED <<keyring, vin, vout>>

---------------------------------------------------------------------------
(* The other operations; each is one call on the engine *)

\* A call of operation o whose engine answer is ans and whose outcome is r.
OneCall(p, o, ans, r) ==
    /\ op' = [op EXCEPT ![p] = o]
    /\ lookup' = [lookup EXCEPT ![p] = ans]
    /\ Finish(p, r)
    /\ UNCHANGED <<keyring, args, local_key, gen, valid_key, listed, vin, vout>>

\* Lines 114-115: list_keys makes a context and returns the generator of
\* ctx.keylist.  It calls the engine for nothing and raises nothing: the
\* engine is asked at each next() on the generator.  `listings` is what the
\* generator may go on to yield.
list_keys(p, listings) ==
    /\ pc[p] = "idle"
    /\ \E listing \in listings :
        /\ listed' = [listed EXCEPT ![p] = listing]
        /\ gen' = [gen EXCEPT ![list_ctx(p)] = listing]
    /\ op' = [op EXCEPT ![p] = "list_keys"]
    /\ Finish(p, Returned([generator |-> list_ctx(p)]))
    /\ UNCHANGED <<keyring, args, local_key, valid_key, lookup, vin, vout>>

\* The end of an iteration: not a failure.
StopIteration == [type |-> "StopIteration", code |-> "-", value |-> None]

\* The caller of list_keys takes one step of the generator it was given:
\* the generator yields its next key, or raises the engine's GPGMEError, or
\* is exhausted.  A generator that has raised is exhausted.
keylist_next(p) ==
    /\ pc[p] = "done"
    /\ op[p] \in {"list_keys", "keylist_next"}
    /\ op' = [op EXCEPT ![p] = "keylist_next"]
    /\ LET g == gen[list_ctx(p)]
       IN  IF g.items # <<>>
           THEN /\ result' = [result EXCEPT ![p] = Returned(Head(g.items))]
                /\ gen' = [gen EXCEPT ![list_ctx(p)] =
                              [items |-> Tail(g.items), err |-> g.err]]
           ELSE /\ result' = [result EXCEPT ![p] =
                                 IF g.err # None THEN g.err ELSE StopIteration]
                /\ gen' = [gen EXCEPT ![list_ctx(p)] = NoGen]
    /\ UNCHANGED <<keyring, pc, args, local_key, valid_key, lookup, listed, vin, vout>>

detached_signature_for(p, answers) ==
    /\ pc[p] = "idle"
    /\ \E ans \in answers :
        OneCall(p, "detached_signature_for", ans,
                IF ans.type # "return" THEN ans
                ELSE Returned([signatures |-> ans.value.sign_result,
                               sigblob |-> ans.value.sigblob]))

verify_detached(p, answers) ==
    /\ pc[p] = "idle"
    /\ \E ans \in answers :
        OneCall(p, "verify_detached", ans,
                IF ans.type = "GPGMEError" THEN GPGProblem(ans.code)
                ELSE IF ans.type # "return" THEN ans
                ELSE Returned([signatures |-> ans.value.verify_results]))

decrypt_verify(p, answers) ==
    /\ pc[p] = "idle"
    /\ \E ans \in answers :
        OneCall(p, "decrypt_verify", ans,
                IF ans.type = "GPGMEError" THEN GPGProblem(ans.code)
                ELSE IF ans.type # "return" THEN ans
                ELSE Returned([signatures |-> ans.value.verify_result,
                               plaintext |-> ans.value.plaintext]))

RFC3156_micalg_from_algo(p, algos) ==
    /\ pc[p] = "idle"
    /\ \E hash_algo \in algos :
        OneCall(p, "RFC3156_micalg_from_algo", [hash_algo |-> hash_algo],
                IF hash_algo_name(hash_algo) = None THEN AttributeError
                ELSE Returned([micalg |-> <<"p", "g", "p", "-">>
                                            \o lower(hash_algo_name(hash_algo))]))

encrypt(p, answers) ==
    /\ pc[p] = "idle"
    /\ \E ans \in answers :
        OneCall(p, "encrypt", ans,
                IF ans.type # "return" THEN ans
                ELSE Returned([out |-> ans.value.out]))

---------------------------------------------------------------------------
(* Specifications *)

\* One caller; the engine answers anything, as when the keyring changes
\* between any two calls on it.
Next ==
    \/ GetKeyCall(1, GetKeyArgs)
    \/ GetKeyLookup(1, LookupAnswers)
    \/ GetKeyList(1, Listings)
    \/ GetKeyLoopNext(1)
    \/ GetKeyLoopRaise(1)
    \/ GetKeyLoopEnd(1)
    \/ GetKeyCheckUid(1)
    \/ list_keys(1, Listings)
    \/ keylist_next(1)
    \/ detached_signature_for(1, OpAnswers([sigblob |-> "blob", sign_result |-> "sigs"]))
    \/ encrypt(1, OpAnswers([out |-> "ciphertext"]))
    \/ verify_detached(1, OpAnswers([verify_results |-> "sigs"]))
    \/ decrypt_verify(1, OpAnswers([plaintext |-> "text", verify_result |-> "sigs"]))
    \/ RFC3156_micalg_from_algo(1, HashAlgos)
    \/ Return(1)

Spec == Init /\ [][Next]_vars

\* Two callers of get_key on a keyring that does not change.
InitConc ==
    /\ keyring \in Rings
    /\ InitCalls
    /\ vin = None
    /\ vout = None

NextConc ==
    \E p \in Procs :
        \/ GetKeyCall(p, GetKeyArgs)
        \/ GetKeyLookup(p, {engine_get_key(keyring, args[p].keyid)})
        \/ GetKeyList(p, {[items |-> engine_keylist(keyring, args[p].keyid),
                           err |-> None]})
        \/ GetKeyLoopNext(p)
        \/ GetKeyLoopEnd(p)
        \/ GetKeyCheckUid(p)
        \/ Return(p)

SpecConc == InitConc /\ [][NextConc]_vars

\* validate_key on every key and every pair of flags.
InitValidate ==
    /\ keyring = <<>>
    /\ InitCalls
    /\ vin \in [key : FlagKeys, sign : BOOLEAN, encrypt : BOOLEAN]
    /\ vout = None

ValidateKey ==
    /\ vout = None
    /\ vout' = [code |-> validate_key(vin.key, vin.sign, vin.encrypt)]
    /\ UNCHANGED <<callvars, vin>>

SpecValidate == InitValidate /\ [][ValidateKey]_vars

\* check_uid_validity on every sequence of user ids and every email.
InitUid ==
    /\ keyring = <<>>
    /\ InitCalls
    /\ vin \in [key : UidKeys, email : Emails]
    /\ vout = None

CheckUidValidity ==
    /\ vout = None
    /\ vout' = [trusted |-> check_uid_validity(vin.key, vin.email)]
    /\ UNCHANGED <<callvars, vin>>

SpecUid == InitUid /\ [][CheckUidValidity]_vars

---------------------------------------------------------------------------
(* Properties *)

\* Call p is a finished call of get_key.
GetKeyDone(p) == pc[p] = "done" /\ op[p] = "get_key"

\* Call p went through the ambiguity resolution of lines 66-94.
Ambiguous(p) == GetKeyDone(p) /\ lookup[p] = GPGMEError("GPG_ERR_AMBIGUOUS_NAME")

\* The positions of the listing of call p whose key passes validate_key with
\* the flags of the call.
Survivors(p) ==
    {i \in DOMAIN listed[p].items :
        validate_key(listed[p].items[i], args[p].sign, args[p].encrypt) = "OK"}

Range(f) == {f[i] : i \in DOMAIN f}

\* C1: a key that get_key returns when signed_only is set has the keyid as a
\* trusted user id (check_uid_validity), on whichever path it was found.
C1_TrustedUidOnEveryPath ==
    \A p \in Procs :
        (GetKeyDone(p) /\ args[p].signed_only /\ result[p].type = "return")
            => check_uid_validity(result[p].value, args[p].keyid)

\* C2: a key that get_key returns when validate is set passes validate_key
\* with the sign and encrypt flags of the call, on both paths.
C2_ReturnedKeyIsValidated ==
    \A p \in Procs :
        (GetKeyDone(p) /\ args[p].validate /\ result[p].type = "return")
            => validate_key(result[p].value, args[p].sign, args[p].encrypt) = "OK"

C2_Witness ==
    /\ Ambiguous(1)
    /\ args[1].validate
    /\ result[1].type = "return"
    /\ Len(listed[1].items) >= 2

\* C3: after an ambiguous lookup whose listing ends normally, the number of
\* listed keys that pass validate_key decides: none gives NOT_FOUND, one
\* gives that key, two or more give AMBIGUOUS_NAME; validate plays no part.
C3_SurvivorCountDecides ==
    \A p \in Procs :
        (Ambiguous(p) /\ listed[p].err = None) =>
            /\ Cardinality(Survivors(p)) = 0 => result[p] = GPGProblem("NOT_FOUND")
            /\ Cardinality(Survivors(p)) = 1 =>
                   \E i \in Survivors(p) : result[p] = Returned(listed[p].items[i])
            /\ Cardinality(Survivors(p)) >= 2 =>
                   result[p] = GPGProblem("AMBIGUOUS_NAME")

C3_Witness ==
    /\ Ambiguous(1)
    /\ listed[1].err = None
    /\ ~args[1].validate
    /\ Len(listed[1].items) = 3
    /\ Survivors(1) = {2}
    /\ result[1] = Returned(listed[1].items[2])

\* C4: validate_key checks in a fixed order and the first failing check
\* gives the code: revoked, expired, invalid, cannot encrypt, cannot sign.
C4_ValidateOrder ==
    vout # None =>
        LET k == vin.key
            usable == ~k.revoked /\ ~k.expired /\ ~k.invalid
            enc_ok == ~vin.encrypt \/ k.can_encrypt
            sign_ok == ~vin.sign \/ k.can_sign
        IN  /\ k.revoked => vout.code = "KEY_REVOKED"
            /\ (~k.revoked /\ k.expired) => vout.code = "KEY_EXPIRED"
            /\ (~k.revoked /\ ~k.expired /\ k.invalid) => vout.code = "KEY_INVALID"
            /\ (usable /\ ~enc_ok) => vout.code = "KEY_CANNOT_ENCRYPT"
            /\ (usable /\ enc_ok /\ ~sign_ok) => vout.code = "KEY_CANNOT_SIGN"
            /\ (usable /\ enc_ok /\ sign_ok) => vout.code = "OK"

C4_Witness ==
    /\ vout # None
    /\ ~vin.key.revoked /\ ~vin.key.expired /\ ~vin.key.invalid
    /\ vin.encrypt /\ ~vin.key.can_encrypt
    /\ vin.sign /\ ~vin.key.can_sign
    /\ vout.code = "KEY_CANNOT_ENCRYPT"

\* C5: every failure an operation hands to its caller is a GPGProblem, with
\* one of the codes of GPGCode or, wrapping an error of the engine, with the
\* code the engine gave in this call; no exception of the engine reaches the
\* caller as it is.  (The end of an iteration is no failure.)
C5_EveryFailureIsCryptoError ==
    \A p \in Procs :
        (pc[p] = "done" /\ result[p].type \notin {"return", "StopIteration"}) =>
            /\ result[p].type = "GPGProblem"
            /\ \/ result[p].code \in GPGCodes
               \/ /\ lookup[p].type = "GPGMEError"
                  /\ result[p].code = lookup[p].code

\* C6: check_uid_validity is true exactly when some user id of the key, at
\* any position, has the given email, is neither revoked nor invalid and has
\* validity 4 or more.
C6_UidTrustedIff ==
    vout # None =>
        (vout.trusted <=>
            \E i \in DOMAIN vin.key.uids :
                LET u == vin.key.uids[i]
                IN  u.email = vin.email /\ ~u.revoked /\ ~u.invalid /\ u.validity >= 4)

C6_Witness ==
    /\ vout # None
    /\ Len(vin.key.uids) = 2
    /\ vin.key.uids[1].email # vin.email
    /\ vin.key.uids[1].validity = 5
    /\ vin.key.uids[2] = mkuid(vin.email, 4)
    /\ vout.trusted

\* C7: whatever the listing yields after an ambiguous lookup (nothing, one
\* key, any other sequence), get_key ends with a listed key that passes
\* validate_key, with NOT_FOUND or with AMBIGUOUS_NAME.
C7_InconsistentListingTolerated ==
    \A p \in Procs :
        (Ambiguous(p) /\ listed[p].err = None) =>
            \/ result[p] = GPGProblem("NOT_FOUND")
            \/ result[p] = GPGProblem("AMBIGUOUS_NAME")
            \/ /\ result[p].type = "return"
               /\ result[p].value \in Range(listed[p].items)
               /\ validate_key(result[p].value, args[p].sign, args[p].encrypt) = "OK"

C7_Witness ==
    /\ Ambiguous(1)
    /\ listed[1] = [items |-> <<>>, err |-> None]
    /\ result[1] = GPGProblem("NOT_FOUND")

\* What a call of get_key with arguments a gives on keyring ring when it
\* runs alone.
Alone(ring, a) ==
    get_key(engine_get_key(ring, a.keyid),
            [items |-> engine_keylist(ring, a.keyid), err |-> None],
            a.keyid, a.validate, a.encrypt, a.sign, a.signed_only)

\* C8: on a keyring that does not change, the outcome of a call of get_key
\* run among other calls, concurrent or earlier, is the outcome it has alone.
C8_OutcomeAsAlone ==
    \A p \in Procs : GetKeyDone(p) => result[p] = Alone(keyring, args[p])

C8_Witness ==
    /\ Ambiguous(1)
    /\ result[1].type = "return"
    /\ pc[2] = "loop"
    /\ Len(gen[list_ctx(2)].items) = 1
    /\ args[2] # args[1]

\* C9: on the unambiguous path validation comes first: a key that fails
\* validate_key when validate is set gives the validator's code, trusted
\* user id or not; NOT_FOUND comes only for a key that passed or when
\* validate is unset.
C9_ValidationBeforeTrust ==
    \A p \in Procs :
        (GetKeyDone(p) /\ lookup[p].type = "return") =>
            LET v == validate_key(lookup[p].value, args[p].sign, args[p].encrypt)
            IN  /\ (args[p].validate /\ v # "OK") =>
                       (result[p] = GPGProblem(v) /\ v \in ValidatorCodes)
                /\ result[p] = GPGProblem("NOT_FOUND") =>
                       (~args[p].validate \/ v = "OK")

C9_Witness ==
    /\ GetKeyDone(1)
    /\ lookup[1] = Returned(K_expired)
    /\ args[1].validate /\ args[1].signed_only
    /\ ~check_uid_validity(K_expired, args[1].keyid)
    /\ result[1] = GPGProblem("KEY_EXPIRED")

\* Every reordering of sequence s.
Reorderings(s) ==
    {[i \in DOMAIN s |-> s[f[i]]] : f \in Permutations(DOMAIN s)}

\* C10: the outcome of the ambiguity resolution is the same for every order
\* in which the engine could have listed the same candidates.
C10_ListingOrderIrrelevant ==
    \A p \in Procs :
        Ambiguous(p) =>
            \A s \in Reorderings(listed[p].items) :
                disambiguate(s, listed[p].err, None, args[p].encrypt, args[p].sign)
                    = result[p]

C10_Witness ==
    /\ Ambiguous(1)
    /\ Len(listed[1].items) = 3
    /\ Cardinality(Range(listed[1].items)) = 3
    /\ Survivors(1) = {1, 2}
    /\ result[1] = GPGProblem("AMBIGUOUS_NAME")

====
